---- MODULE Spec2Model ----
(***************************************************************************)
(* Voice server of mods/voice/src/server.ts: the webhook dispatcher        *)
(* (app.post), the realtime relay (app.ws) and the two collaborators the   *)
(* server constructs and calls, VoiceEvents (the event bus, ./events) and  *)
(* VoiceResponse (the action response builder, ./voice).  The sources of   *)
(* ./events and ./voice are not part of the tree; their operators are      *)
(* written from sections 4.1 and 4.3 of the specification.                 *)
(*                                                                         *)
(* One action of the model is one macrotask of the Node event loop: its    *)
(* callbacks run to completion (for a received chunk, the "message"        *)
(* callback of every frame in it), and the promise continuations they make *)
(* ready (a resumed handler, the dispatcher's res.end()) run after them,   *)
(* in the order they were made ready, before the next macrotask.           *)
(***************************************************************************)
EXTENDS Integers, Sequences, FiniteSets, TLC

\* ---------------------------------------------------------------- bounds
MaxReq == 2        \* inbound POSTs
MaxConn == 1       \* realtime connections
MaxFrames == 2     \* frames received over all realtime connections
MaxChunk == 2      \* frames received in one chunk
MaxSubs == 2       \* listeners subscribed directly on the bus
MaxUnsub == 2      \* unsubscribe calls per handle
MaxClose == 1      \* realtime connections that close
MaxServers == 2    \* VoiceServer objects constructed
MaxStale == 2      \* calls made on a builder after its handler returned
MaxTts == 3        \* GET /tts/:file requests
MaxEvents == 3     \* events of one deployment stream
MaxRpc == 2        \* getFunc, deleteFunc and listFuncs calls
MaxUses == 2       \* requests and realtime messages routed to server objects
MaxCalls == 3      \* listen() and init() calls made on server objects

\* ------------------------------------------------------------ input sets
\* The messages a realtime client sends, and the text it puts on the wire
\* for one: JSON.stringify(m).
SentDigit5 == [type |-> "digit", value |-> "5"]
SentStateUp == [type |-> "state", value |-> "up"]
SentMsgs == {SentDigit5, SentStateUp}
Stringify(m) ==
  "{\"type\":\"" \o m.type \o "\",\"value\":\"" \o m.value \o "\"}"

\* The value the "message" callback is handed for a frame: the frame's raw
\* data (a Buffer or a string holding the text), not a parsed object.
Frame(m) == [raw |-> Stringify(m)]
Digit5 == Frame(SentDigit5)
StateUp == Frame(SentStateUp)
Msgs == {Digit5, StateUp}

\* The outcome of a wait that no message completed.
NoMsg == [raw |-> ""]

\* m.type read on such a value: the raw data has no property "type".
TypeProp(m) == "undefined"

\* JSON.parse(m.toString()), for user code that decodes the frame itself.
Parse(m) == CHOOSE x \in SentMsgs : Stringify(x) = m.raw

\* What a user handler does, as the sequence of builder calls it makes; the
\* end of the sequence is the handler's return.
ActionOps == {"play", "hangup"}
WaitOps == {"waitDigit", "waitDigitText", "waitStateText"}
Handlers ==
  { <<"play">>,
    <<"throw">>,
    <<"play", "waitStateText", "hangup">>,
    <<"waitDigitText", "waitDigitText">> }

\* The handler of the end-to-end scenario, beside two that do not wait.
E2EHandlers == { <<"waitDigit">>, <<"play">>, <<"throw">> }

\* const voiceEvents = new VoiceEvents(): the instance made when the module
\* is loaded, named by its number among the instances.
voiceEvents == 1

\* const defaultServerConfig = {path: "/", port: 3000, bind: "0.0.0.0"}.
DefaultPort == 3000
defaultServerConfig ==
  [path |-> "/", port |-> DefaultPort, bind |-> "0.0.0.0"]

\* The constructor's argument: nothing (<<>>) or a configuration object in
\* which each of path, port and bind is given (<<v>>) or omitted (<<>>).
ConfigArgs ==
  [path : {<<>>, <<"/voice">>},
   port : {<<>>, <<8080>>},
   bind : {<<>>, <<"127.0.0.1">>}]
ServerArgs == {<<>>} \cup {<<a>> : a \in ConfigArgs}

\* Of these: no argument, and a configuration object that gives a path only.
PathArgsOnly == {<<>>, <<[path |-> <<"/voice">>, port |-> <<>>, bind |-> <<>>]>>}

\* A configuration object with every field given.
AsGiven(c) == [path |-> <<c.path>>, port |-> <<c.port>>, bind |-> <<c.bind>>]

\* A merge whose arguments are swapped: the defaults override.
mergeTargetWins(target, source) ==
  [out |-> target, target |-> target]

\* merge(target, source) of deepmerge on flat objects: a new object with the
\* target's fields, each overridden by the source's field when the source
\* has it; the target object itself is left as it is.
merge(target, source) ==
  [out |-> [path |-> IF source.path # <<>> THEN source.path[1] ELSE target.path,
            port |-> IF source.port # <<>> THEN source.port[1] ELSE target.port,
            bind |-> IF source.bind # <<>> THEN source.bind[1] ELSE target.bind],
   target |-> target]

\* A server whose routes use a bus of its own.
PerServerBus(srv) == voiceEvents + srv

\* The bus the route callbacks of server object srv refer to: the module's.
ServerBus(srv) == voiceEvents

\* The file names asked for, and what fs.readFile hands its callback for a
\* name: the file's bytes, or an error (no such file, or not readable).
TtsFiles == {"hello.wav", "missing.wav"}
ReadResults(file) ==
  {[err |-> "ENOENT", data |-> ""], [err |-> "EACCES", data |-> ""],
   [err |-> "", data |-> "bytes of " \o file]}

\* The response of a GET /tts/:file whose route callback has returned: the
\* read is under way and nothing was written.
TtsOpen == [status |-> 200, ctype |-> "", body |-> "", ended |-> FALSE]

\* The readFile callback of GET /tts/:file, on that response: what the
\* response is when the callback has run.  res.send of a string with no
\* content type set makes it text/html.
TtsRespond(rd) ==
  IF rd.err # ""
    THEN [status |-> 200, ctype |-> "text/html; charset=utf-8",
          body |-> "unable to find or open file", ended |-> TRUE]
    ELSE [status |-> 200, ctype |-> "audio/x-wav",
          body |-> rd.data, ended |-> TRUE]

\* The predicate of a wait: "digit" is m => m.type === "digit"; "digitText"
\* and "stateText" decode the frame first, as
\* m => JSON.parse(m.toString()).type === "digit" (or "state").
PredOf(op) ==
  CASE op = "waitDigit" -> "digit"
    [] op = "waitDigitText" -> "digitText"
    [] OTHER -> "stateText"
Holds(p, m) ==
  CASE p = "digit" -> TypeProp(m) = "digit"
    [] p = "digitText" -> Parse(m).type = "digit"
    [] p = "stateText" -> Parse(m).type = "state"
    [] OTHER -> FALSE

VARIABLES
  listening,   \* listen() was called: the POST route exists, the port is open
  reqs,        \* the inbound POSTs, in arrival order
  actions,     \* actions[b]: the action sequence of builder b
  listeners,   \* the bus's listener set (handles)
  linfo,       \* linfo[h]: the listener registered under handle h
  delivered,   \* delivered[h]: the messages handed to listener h, in order
  unsubCalls,  \* unsubCalls[h]: unsubscribe(h) calls made so far
  logged,      \* listener failures the bus logged
  bcasts,      \* the broadcast calls made, in order: [conn, msg, to]
  conns,       \* the realtime connections
  crashed,     \* the process has ended (uncaught exception, unhandled rejection)
  closedBuilders, \* the builders that were closed
  staleCalls,  \* the calls made on builders after their handler returned
  servers,     \* the VoiceServer objects constructed, in order
  defaults,    \* the module's defaultServerConfig object
  postRoutes,  \* the POST routes registered on the app, in order
  wsRoutes,    \* the realtime routes registered on the app, in order
  buses,       \* the VoiceEvents instances constructed
  busUses,     \* the bus each builder was given and each relay broadcast to
  tts,         \* the GET /tts/:file exchanges, in order
  dep,         \* the deployFunc calls, in order
  rpc          \* the getFunc, deleteFunc and listFuncs calls, in order

\* The voice server's request handling, the process-wide objects, the static
\* responder and the Funcs client.
coreVars == <<listening, reqs, actions, listeners, linfo, delivered,
              unsubCalls, logged, bcasts, conns, crashed>>
builderVars == <<closedBuilders, staleCalls>>
procVars == <<servers, defaults, postRoutes, wsRoutes, buses, busUses>>
ttsVars == <<tts>>
funcVars == <<dep, rpc>>
vars == <<coreVars, builderVars, procVars, ttsVars, funcVars>>

Handles == 1..Len(linfo)
ReqIds == 1..Len(reqs)
ConnIds == 1..Len(conns)
OpenConns == {c \in ConnIds : conns[c].open}

\* The part of the state handlers and the bus work on, as one value.  resume
\* is the queue of handler continuations made ready in the running macrotask
\* (empty between macrotasks); raised is an exception leaving a callback.
World ==
  [reqs |-> reqs, actions |-> actions, listeners |-> listeners,
   linfo |-> linfo, delivered |-> delivered, logged |-> logged,
   bcasts |-> bcasts, resume |-> <<>>, raised |-> FALSE]

Commit(W) ==
  /\ reqs' = W.reqs
  /\ actions' = W.actions
  /\ listeners' = W.listeners
  /\ linfo' = W.linfo
  /\ delivered' = W.delivered
  /\ logged' = W.logged
  /\ bcasts' = W.bcasts

\* ------------------------------------------------------------- event bus
\* subscribe(listener): registers the listener and returns its handle.
subscribe(W, l) ==
  [W EXCEPT !.linfo = Append(@, l),
            !.delivered = Append(@, <<>>),
            !.listeners = @ \cup {Len(W.linfo) + 1}]

\* An unsubscribe that removes nothing.
unsubscribeNothing(W, h) == W

\* unsubscribe(handle): idempotent removal.
unsubscribe(W, h) == [W EXCEPT !.listeners = @ \ {h}]

\* The number of the smallest element of a non-empty set of numbers.
Min(S) == CHOOSE x \in S : \A y \in S : x <= y

\* ------------------------------------------------ action response builder
\* addAction(action): appends to the builder's ordered action sequence.  The
\* entry keeps the request whose handler made the call.
addAction(W, r, a) ==
  [W EXCEPT !.actions[W.reqs[r].builder] = Append(@, [by |-> r, act |-> a])]

\* waitForEvent(predicate, timeout): subscribes to the bus and suspends the
\* handler.  since is the number of broadcasts made before the call.
waitForEvent(W, r, p) ==
  LET W1 == subscribe(W, [kind |-> "wait", req |-> r, pred |-> p,
                          raises |-> FALSE, since |-> Len(W.bcasts)])
  IN [W1 EXCEPT !.reqs[r].st = "waiting", !.reqs[r].wait = Len(W1.linfo)]

\* A wait that completes and leaves its listener subscribed.
resolveWaitResidual(W, r, h, kind, m) ==
  [W EXCEPT !.resume = Append(@, r),
            !.reqs[r].st = "ready",
            !.reqs[r].wait = 0,
            !.reqs[r].outs = Append(@, [h |-> h, kind |-> kind, msg |-> m,
                                        at |-> Len(W.bcasts)])]

\* The wait of request r under handle h completes with outcome kind/m: the
\* listener is unsubscribed and the handler becomes ready to continue.
resolveWait(W, r, h, kind, m) ==
  LET W1 == unsubscribe(W, h)
  IN [W1 EXCEPT !.resume = Append(@, r),
                !.reqs[r].st = "ready",
                !.reqs[r].wait = 0,
                !.reqs[r].outs = Append(@, [h |-> h, kind |-> kind, msg |-> m,
                                            at |-> Len(W.bcasts)])]

\* ------------------------------------------------------------ dispatcher
\* A dispatcher that shares one builder between all requests.
SharedBuilder(W) == 1

\* new VoiceResponse(req.body, voiceEvents): the builder of a new request.
NewBuilder(W) == Len(W.actions) + 1

\* A dispatcher that ends the response on two paths.
HandlerDoneTwice(W, r) ==
  [W EXCEPT !.reqs[r].st = "returned", !.reqs[r].ended = @ + 2]

\* await handler(...) returned: the dispatcher goes on to res.end().
HandlerDone(W, r) ==
  [W EXCEPT !.reqs[r].st = "returned", !.reqs[r].ended = @ + 1]

\* await handler(...) threw: the async route callback rejects at the await,
\* nothing catches it, and res.end() is not reached.  What the runtime does
\* with the unhandled rejection is in UnhandledRejection.
HandlerFailed(W, r) == [W EXCEPT !.reqs[r].st = "failed"]

\* The user handler of request r runs from its current position to its next
\* suspension, its return or its failure.
RECURSIVE RunHandler(_, _)
RunHandler(W, r) ==
  LET q == W.reqs[r] IN
  IF q.pc > Len(q.script) THEN HandlerDone(W, r)
  ELSE LET op == q.script[q.pc]
           W1 == [W EXCEPT !.reqs[r].pc = @ + 1]
       IN CASE op \in ActionOps -> RunHandler(addAction(W1, r, op), r)
            [] op \in WaitOps -> waitForEvent(W1, r, PredOf(op))
            [] OTHER -> HandlerFailed(W1, r)

\* The route callback is entered for a new request: its builder is made.
StartRequest(W, script) ==
  LET b == NewBuilder(W) IN
  [W EXCEPT
     !.actions = IF b > Len(@) THEN Append(@, <<>>) ELSE @,
     !.reqs = Append(@, [script |-> script, pc |-> 1, st |-> "ready",
                         builder |-> b, invoked |-> 0, ended |-> 0,
                         wait |-> 0, outs |-> <<>>])]

\* handler(req.body, response) is called.
InvokeHandler(W, r) == RunHandler([W EXCEPT !.reqs[r].invoked = @ + 1], r)

\* A dispatcher that calls the handler without awaiting it.
DispatchNoAwait(W, script) ==
  LET r == Len(W.reqs) + 1
      W1 == InvokeHandler(StartRequest(W, script), r)
  IN [W1 EXCEPT !.reqs[r].ended = IF @ = 0 THEN 1 ELSE @]

\* app.post(path, async (req, res) => {...}) on one inbound request whose
\* handler behaves as script.
Dispatch(W, script) ==
  InvokeHandler(StartRequest(W, script), Len(W.reqs) + 1)

\* The handlers whose wait has completed continue, in the order in which
\* their waits were completed (promise continuations run first in, first out).
RECURSIVE ResumeAll(_)
ResumeAll(W) ==
  IF W.resume = <<>> THEN W
  ELSE ResumeAll(RunHandler([W EXCEPT !.resume = Tail(@)], Head(W.resume)))

\* --------------------------------------------------------------- broadcast
\* A delivery that lets a listener's failure out to the publisher.
DeliverOneNoIsolation(W, h, m) ==
  LET l == W.linfo[h]
      W1 == [W EXCEPT !.delivered[h] = Append(@, m)]
  IN IF l.kind = "plain"
       THEN IF l.raises THEN [W1 EXCEPT !.raised = TRUE] ELSE W1
       ELSE IF Holds(l.pred, m) THEN resolveWait(W1, l.req, h, "msg", m) ELSE W1

\* One listener is handed m.  A failing listener is logged and isolated; a
\* wait listener whose predicate m satisfies completes its wait.  (raised is
\* the error a broadcast would hand to its caller; delivery stops there.)
DeliverOne(W, h, m) ==
  LET l == W.linfo[h]
      W1 == [W EXCEPT !.delivered[h] = Append(@, m)]
  IN IF l.kind = "plain"
       THEN IF l.raises THEN [W1 EXCEPT !.logged = @ + 1] ELSE W1
       ELSE IF Holds(l.pred, m) THEN resolveWait(W1, l.req, h, "msg", m) ELSE W1

RECURSIVE Deliver(_, _, _)
Deliver(W, hs, m) ==
  IF hs = {} \/ W.raised THEN W
  ELSE Deliver(DeliverOne(W, Min(hs), m), hs \ {Min(hs)}, m)

\* A broadcast that misses the first registered listener.
broadcastSkipFirst(W, m) ==
  IF W.listeners = {} THEN W
  ELSE Deliver(W, W.listeners \ {Min(W.listeners)}, m)

\* broadcast(message): delivers message to every currently registered
\* listener; never raises to the publisher.
broadcast(W, m) == Deliver(W, W.listeners, m)

\* ------------------------------------------------------------------ relay
\* A relay that has two message callbacks on a connection.
RelayTwice(W, c, msg) ==
  LET W1 == broadcast([W EXCEPT !.bcasts = Append(@, [conn |-> c, msg |-> msg,
                                                      to |-> W.listeners])], msg)
  IN broadcast([W1 EXCEPT !.bcasts = Append(@, [conn |-> c, msg |-> msg,
                                                to |-> W1.listeners])], msg)

\* A relay that routes a message to the waits of one request only.
RelayScoped(W, c, msg) ==
  LET W1 == [W EXCEPT !.bcasts = Append(@, [conn |-> c, msg |-> msg,
                                            to |-> W.listeners])]
      waits == {h \in W.listeners : W.linfo[h].kind = "wait"}
  IN IF waits = {} THEN broadcast(W1, msg)
     ELSE Deliver(W1, {h \in W.listeners :
                         \/ W.linfo[h].kind = "plain"
                         \/ W.linfo[h].req = W.linfo[Min(waits)].req}, msg)

\* ws.on("message", (msg) => { voiceEvents.broadcast(msg); }) on connection c.
\* (The log entry keeps the listeners subscribed when broadcast is called.)
RelayOnMessage(W, c, msg) ==
  broadcast([W EXCEPT !.bcasts = Append(@, [conn |-> c, msg |-> msg,
                                            to |-> W.listeners])], msg)

\* The "message" callbacks of the frames of one received chunk, one after
\* the other; an exception leaving one ends the macrotask.
RECURSIVE RelayChunk(_, _, _)
RelayChunk(W, c, chunk) ==
  IF chunk = <<>> \/ W.raised THEN W
  ELSE RelayChunk(RelayOnMessage(W, c, Head(chunk)), c, Tail(chunk))

\* The frames the message callback writes back to the client: none.
RelayFrames(c, msg) == <<>>

\* ------------------------------------------------------------------ state
\* The module is loaded: one VoiceEvents instance, the default configuration,
\* no server object and no route yet.
InitProcess ==
  /\ servers = <<>>
  /\ defaults = defaultServerConfig
  /\ postRoutes = <<>>
  /\ wsRoutes = <<>>
  /\ buses = {voiceEvents}
  /\ busUses = <<>>

Init ==
  /\ listening = FALSE
  /\ reqs = <<>>
  /\ actions = <<>>
  /\ listeners = {}
  /\ linfo = <<>>
  /\ delivered = <<>>
  /\ unsubCalls = <<>>
  /\ logged = 0
  /\ bcasts = <<>>
  /\ conns = <<>>
  /\ crashed = FALSE
  /\ closedBuilders = {}
  /\ staleCalls = <<>>
  /\ InitProcess
  /\ tts = <<>>
  /\ dep = <<>>
  /\ rpc = <<>>

FramesReceived ==
  LET RECURSIVE Sum(_)
      Sum(c) == IF c = 0 THEN 0 ELSE Len(conns[c].recv) + Sum(c - 1)
  IN Sum(Len(conns))

PlainHandles == {h \in Handles : linfo[h].kind = "plain"}

\* The handle table grows with the listener table.
Pad(u, n) == [h \in 1..n |-> IF h <= Len(u) THEN u[h] ELSE 0]

\* The requests whose handler failed in the macrotask that ends in W.
NewFailures(W) ==
  {r \in 1..Len(W.reqs) :
     /\ W.reqs[r].st = "failed"
     /\ (r > Len(reqs) \/ reqs[r].st # "failed")}

\* The end of a macrotask that leaves W: the process ends if an exception
\* left a callback; if a route callback's promise was rejected with nothing
\* handling it, the runtime either ends the process (the default since
\* Node 15) or only warns (before, and under --unhandled-rejections=warn).
UnhandledRejection(W) ==
  IF W.raised THEN crashed' = TRUE
  ELSE IF NewFailures(W) # {} THEN crashed' \in BOOLEAN
  ELSE crashed' = FALSE

\* The chunks of frames of M that may still arrive.
Chunks(M) ==
  UNION {[1..n -> M] : n \in 1..Min({MaxChunk, MaxFrames - FramesReceived})}

\* ---------------------------------------------------------------- actions
\* server.listen(handler): the POST route is registered and app.listen opens
\* the port.  When the port is held by another socket the opening fails: the
\* http server emits "error", nothing listens for it, and the process ends
\* with the port never opened.
Listen ==
  /\ ~listening /\ ~crashed
  /\ \/ listening' = TRUE /\ crashed' = FALSE
     \/ listening' = FALSE /\ crashed' = TRUE
  /\ UNCHANGED <<reqs, actions, listeners, linfo, delivered, unsubCalls,
                 logged, bcasts, conns>>
  /\ UNCHANGED <<builderVars, procVars, ttsVars, funcVars>>

\* An inbound POST on the configured path, the handler being one of H.
PostWith(H) ==
  /\ listening /\ ~crashed
  /\ Len(reqs) < MaxReq
  /\ \E script \in H :
       LET W == Dispatch(World, script) IN
       /\ Commit(W)
       /\ unsubCalls' = Pad(unsubCalls, Len(W.linfo))
       /\ UnhandledRejection(W)
  /\ UNCHANGED <<listening, conns>>
  /\ UNCHANGED <<builderVars, procVars, ttsVars, funcVars>>

Post == PostWith(Handlers)

\* A POST to the end-to-end handler, or to one that returns or fails at once.
PostE2E == PostWith(E2EHandlers)

\* The timer of request r's pending waitForEvent fires.
TimeoutOf(r) ==
  /\ ~crashed
  /\ r \in ReqIds
  /\ reqs[r].st = "waiting"
  /\ LET W == ResumeAll(resolveWait(World, r, reqs[r].wait, "timeout", NoMsg))
     IN /\ Commit(W)
        /\ unsubCalls' = Pad(unsubCalls, Len(W.linfo))
        /\ UnhandledRejection(W)
  /\ UNCHANGED <<listening, conns>>
  /\ UNCHANGED <<builderVars, procVars, ttsVars, funcVars>>

Timeout == \E r \in 1..MaxReq : TimeoutOf(r)

\* A realtime client connects on the configured path.
WsConnect ==
  /\ listening /\ ~crashed
  /\ Cardinality(OpenConns) < MaxConn
  /\ conns' = Append(conns, [recv |-> <<>>, out |-> <<>>, open |-> TRUE,
                              failed |-> FALSE, pending |-> {}])
  /\ UNCHANGED <<listening, reqs, actions, listeners, linfo, delivered,
                 unsubCalls, logged, bcasts, crashed>>
  /\ UNCHANGED <<builderVars, procVars, ttsVars, funcVars>>

\* The frames the callbacks wrote back for the frames of chunk.
RECURSIVE ChunkFrames(_, _)
ChunkFrames(c, chunk) ==
  IF chunk = <<>> THEN <<>>
  ELSE RelayFrames(c, Head(chunk)) \o ChunkFrames(c, Tail(chunk))

\* A chunk of frames of M arrives on connection c: the "message" callback
\* runs for each frame, then the handlers whose waits they completed go on.
WsMessageOf(M) ==
  /\ ~crashed
  /\ FramesReceived < MaxFrames
  /\ \E c \in OpenConns : \E chunk \in Chunks(M) :
       LET W0 == RelayChunk(World, c, chunk)
           W == ResumeAll(W0)
       IN /\ Commit(W)
          /\ unsubCalls' = Pad(unsubCalls, Len(W.linfo))
          /\ UnhandledRejection(W)
          /\ conns' = [conns EXCEPT ![c].recv = @ \o chunk,
                                    ![c].out = @ \o ChunkFrames(c, chunk)]
  /\ UNCHANGED listening
  /\ UNCHANGED <<builderVars, procVars, ttsVars, funcVars>>

\* A request to a handler that waits for a digit frame: the handlers that are still
\* in flight when a later event arrives.
PostWaiting == PostWith({<<"waitDigitText">>})

\* What the server runs when connection c closes: init() registers a
\* "message" callback only, so nothing.
OnClose(W, c) == W

\* The transport library reports a failure of connection c (a frame that
\* breaks the protocol, for one) by emitting "error" on the connection
\* object: init() registers no "error" listener, so the emit throws.
OnError(W, c) == [W EXCEPT !.raised = TRUE]

\* The frames of M that may come before the frame that breaks the protocol,
\* in the chunk that holds it: none, or a chunk of frames.
FramesBeforeError(M) == {<<>>} \cup Chunks(M)

\* Connection c goes away.  It is closed (by the client, or its transport is
\* reset): no code of the server runs.  Or a frame that breaks the protocol
\* arrives, at the end of a chunk: the "message" callback runs for the
\* frames before it, then "error" is emitted on the connection object from
\* process.nextTick, which runs before any promise continuation; the emit
\* throws, so the handlers whose waits those frames completed are never
\* resumed, and the connection's "close" is never reported.
\* (pending keeps the waits that were subscribed at that moment.)
WsClose ==
  /\ ~crashed
  /\ Cardinality(ConnIds \ OpenConns) < MaxClose
  /\ \E c \in OpenConns :
       \/ LET W == OnClose(World, c)
          IN /\ Commit(W)
             /\ unsubCalls' = Pad(unsubCalls, Len(W.linfo))
             /\ crashed' = W.raised
             /\ conns' = [conns EXCEPT ![c].open = FALSE,
                            ![c].pending = {h \in listeners : linfo[h].kind = "wait"}]
       \/ \E chunk \in FramesBeforeError(Msgs) :
            LET W == OnError(RelayChunk(World, c, chunk), c)
            IN /\ Commit(W)
               /\ unsubCalls' = Pad(unsubCalls, Len(W.linfo))
               /\ crashed' = W.raised
               /\ conns' = [conns EXCEPT ![c].recv = @ \o chunk,
                              ![c].out = @ \o ChunkFrames(c, chunk),
                              ![c].failed = TRUE,
                              ![c].pending = {h \in listeners : linfo[h].kind = "wait"}]
  /\ UNCHANGED listening
  /\ UNCHANGED <<builderVars, procVars, ttsVars, funcVars>>

\* A frame with any of the messages arrives.
WsMessage == WsMessageOf(Msgs)

\* A digit frame arrives.
WsDigit == WsMessageOf({Digit5})

\* The builders the dispatcher closes once the handler of request r has
\* returned: after the await it calls res.end() and nothing on the builder.
ClosedOnReturn(r) == {}

\* User code that kept the builder of a request whose handler has returned
\* calls addAction on it.  A closed builder refuses the call.
StaleAddAction ==
  /\ ~crashed
  /\ Len(staleCalls) < MaxStale
  /\ \E r \in ReqIds :
       /\ reqs[r].st = "returned"
       /\ LET refused == reqs[r].builder \in closedBuilders \cup ClosedOnReturn(r)
          IN /\ staleCalls' = Append(staleCalls, [req |-> r, op |-> "addAction",
                                                  failed |-> refused])
             /\ IF refused THEN UNCHANGED <<reqs, actions, listeners, linfo,
                                            delivered, logged, bcasts>>
                ELSE Commit(addAction(World, r, "play"))
  /\ UNCHANGED <<listening, unsubCalls, conns, crashed, closedBuilders>>
  /\ UNCHANGED <<procVars, ttsVars, funcVars>>

\* The same user code calls waitForEvent on the kept builder: unless the
\* builder refuses, the wait's listener is subscribed on the bus.
StaleWaitForEvent ==
  /\ ~crashed
  /\ Len(staleCalls) < MaxStale
  /\ \E r \in ReqIds :
       /\ reqs[r].st = "returned"
       /\ LET refused == reqs[r].builder \in closedBuilders \cup ClosedOnReturn(r)
              W == subscribe(World, [kind |-> "stale", req |-> r, pred |-> "digit",
                                     raises |-> FALSE, since |-> Len(bcasts)])
          IN /\ staleCalls' = Append(staleCalls, [req |-> r, op |-> "waitForEvent",
                                                  failed |-> refused])
             /\ IF refused THEN UNCHANGED <<reqs, actions, listeners, linfo,
                                            delivered, logged, bcasts, unsubCalls>>
                ELSE /\ Commit(W)
                     /\ unsubCalls' = Pad(unsubCalls, Len(W.linfo))
  /\ UNCHANGED <<listening, conns, crashed, closedBuilders>>
  /\ UNCHANGED <<procVars, ttsVars, funcVars>>

\* User code subscribes a listener of its own on the bus.
Subscribe ==
  /\ ~crashed
  /\ Cardinality(PlainHandles) < MaxSubs
  /\ \E raises \in BOOLEAN :
       LET W == subscribe(World, [kind |-> "plain", req |-> 0, pred |-> "",
                                  raises |-> raises, since |-> Len(bcasts)])
       IN /\ Commit(W)
          /\ unsubCalls' = Pad(unsubCalls, Len(W.linfo))
  /\ UNCHANGED <<listening, conns, crashed>>
  /\ UNCHANGED <<builderVars, procVars, ttsVars, funcVars>>

\* User code calls unsubscribe with a handle it holds, subscribed or not.
Unsubscribe ==
  /\ ~crashed
  /\ \E h \in PlainHandles :
       /\ unsubCalls[h] < MaxUnsub
       /\ Commit(unsubscribe(World, h))
       /\ unsubCalls' = [unsubCalls EXCEPT ![h] = @ + 1]
  /\ UNCHANGED <<listening, conns, crashed>>
  /\ UNCHANGED <<builderVars, procVars, ttsVars, funcVars>>

\* -------------------------------------------------------- audio artifacts
\* GET /tts/:file: the route callback starts the read of the file in the
\* artifact directory and returns; the response stays open.
TtsGet ==
  /\ listening /\ ~crashed
  /\ Len(tts) < MaxTts
  /\ \E file \in TtsFiles :
       tts' = Append(tts, [file |-> file, done |-> FALSE,
                           read |-> [err |-> "", data |-> ""], res |-> TtsOpen])
  /\ UNCHANGED <<coreVars, builderVars, procVars, funcVars>>

\* A read is over, of any of the exchanges still open, and its callback
\* answers.
TtsRead ==
  /\ ~crashed
  /\ \E i \in 1..Len(tts) :
       /\ ~tts[i].done
       /\ \E rd \in ReadResults(tts[i].file) :
            tts' = [tts EXCEPT ![i] = [file |-> tts[i].file, done |-> TRUE,
                                       read |-> rd, res |-> TtsRespond(rd)]]
  /\ UNCHANGED <<coreVars, builderVars, procVars, funcVars>>

\* A POST to a handler that adds an action and returns.
PostPlay == PostWith({<<"play">>})

TtsNext ==
  \/ Listen
  \/ TtsGet
  \/ TtsRead
  \/ PostPlay

TtsSpec == Init /\ [][TtsNext]_vars

\* ------------------------------------------------- functions client: deploy
\* deployFunc's inputs: the function's name, pathToFunc (not given, empty or
\* a path) and whether an emitter is given.
FuncNames == {"f"}
PathArgs == {<<>>, <<"">>, <<"./fn">>}
DeployRequests == [name : FuncNames, pathToFunc : PathArgs]

\* if (request.pathToFunc): a given, non-empty string.
Truthy(path) == path # <<>> /\ path[1] # ""

\* The events a deployment stream emits.
StreamEvents ==
  [type : {"data"}, val : {"m1", "m2"}]
    \cup {[type |-> "end", val |-> ""], [type |-> "error", val |-> "e1"]}

\* A step deployFunc takes.
Step(op, a, b) == [op |-> op, a |-> a, b |-> b]

\* resolve() / reject(e) on a promise: the first call settles it, a later
\* one changes nothing.
Settle(p, state, err) ==
  IF p.state = "pending"
    THEN [state |-> state, err |-> err, calls |-> p.calls + 1]
    ELSE [p EXCEPT !.calls = @ + 1]

\* return new Promise(...): the request is built and the stream is opened,
\* with its three callbacks.
openStream(d) ==
  [d EXCEPT !.steps = Append(@, Step("open", d.request.name, "")),
            !.phase = "streaming"]

\* deployFunc(request, emitter) up to its first await or to its return.
deployFunc(request, hasEmitter) ==
  LET d == [request |-> request, hasEmitter |-> hasEmitter, phase |-> "called",
            failure |-> "", steps |-> <<>>, events |-> <<>>, emitted |-> <<>>,
            promise |-> [state |-> "pending", err |-> "", calls |-> 0]]
  IN IF Truthy(request.pathToFunc)
       THEN [d EXCEPT !.steps = <<Step("cleanup", request.name, ""),
                                  Step("copy", request.pathToFunc[1], request.name)>>,
                      !.phase = "copying"]
       ELSE openStream(d)

\* An upload that is started and not awaited.
afterCopyNoAwait(d, err) ==
  IF err # "" THEN [d EXCEPT !.phase = "failed",
                             !.promise = Settle(@, "rejected", err)]
  ELSE openStream(
         [d EXCEPT !.steps = @ \o <<Step("copied", d.request.name, ""),
                                    Step("upload", "/tmp/" \o d.request.name \o ".tgz",
                                         "funcs")>>])

\* await copyFuncAtTmp(...) is over, with failure err or with none (""): a
\* failure rejects the returned promise; otherwise the upload is started.
afterCopy(d, err) ==
  IF err # "" THEN [d EXCEPT !.phase = "failed",
                             !.promise = Settle(@, "rejected", err)]
  ELSE [d EXCEPT !.steps = @ \o <<Step("copied", d.request.name, ""),
                                  Step("upload", "/tmp/" \o d.request.name \o ".tgz",
                                       "funcs")>>,
                 !.phase = "uploading"]

\* An upload whose failure is swallowed.
afterUploadSwallows(d, err) ==
  openStream([d EXCEPT !.steps = Append(@, Step("uploaded", d.request.name, ""))])

\* await this.storage.uploadObject(...) is over: a failure rejects the
\* returned promise; otherwise the stream is opened.
afterUpload(d, err) ==
  IF err # "" THEN [d EXCEPT !.phase = "failed",
                             !.promise = Settle(@, "rejected", err)]
  ELSE openStream([d EXCEPT !.steps = Append(@, Step("uploaded", d.request.name, ""))])

\* Stream callbacks whose "error" callback resolves.
onStreamErrorResolves(d, ev) ==
  LET d1 == [d EXCEPT !.events = Append(@, ev)] IN
  CASE ev.type = "data" ->
         IF d.hasEmitter THEN [d1 EXCEPT !.emitted = Append(@, ev.val)] ELSE d1
    [] OTHER -> [d1 EXCEPT !.promise = Settle(@, "resolved", "")]

\* The stream's callbacks: "data" passes the message to the emitter if there
\* is one, "end" resolves, "error" rejects with the error.
onStream(d, ev) ==
  LET d1 == [d EXCEPT !.events = Append(@, ev)] IN
  CASE ev.type = "data" ->
         IF d.hasEmitter THEN [d1 EXCEPT !.emitted = Append(@, ev.val)] ELSE d1
    [] ev.type = "end" -> [d1 EXCEPT !.promise = Settle(@, "resolved", "")]
    [] OTHER -> [d1 EXCEPT !.promise = Settle(@, "rejected", ev.val)]

\* A caller calls deployFunc.
DeployCall ==
  /\ dep = <<>>
  /\ \E request \in DeployRequests, hasEmitter \in BOOLEAN :
       dep' = <<deployFunc(request, hasEmitter)>>
  /\ UNCHANGED <<coreVars, builderVars, procVars, ttsVars, rpc>>

\* The copy finishes or fails.  (failure keeps what the step ended with.)
CopyDone ==
  /\ dep # <<>> /\ dep[1].phase = "copying"
  /\ \E err \in {"", "copy failed"} :
       dep' = <<[afterCopy(dep[1], err) EXCEPT !.failure = err]>>
  /\ UNCHANGED <<coreVars, builderVars, procVars, ttsVars, rpc>>

\* The upload finishes or fails.
UploadDone ==
  /\ dep # <<>> /\ dep[1].phase = "uploading"
  /\ \E err \in {"", "upload failed"} :
       dep' = <<[afterUpload(dep[1], err) EXCEPT !.failure = err]>>
  /\ UNCHANGED <<coreVars, builderVars, procVars, ttsVars, rpc>>

\* The open stream emits an event.
StreamEmit ==
  /\ dep # <<>>
  /\ \E i \in 1..Len(dep[1].steps) : dep[1].steps[i].op = "open"
  /\ Len(dep[1].events) < MaxEvents
  /\ \E ev \in StreamEvents : dep' = <<onStream(dep[1], ev)>>
  /\ UNCHANGED <<coreVars, builderVars, procVars, ttsVars, rpc>>

DeployNext ==
  \/ DeployCall
  \/ CopyDone
  \/ UploadDone
  \/ StreamEmit

DeploySpec == Init /\ [][DeployNext]_vars

\* ---------------------------------------------------- functions client: RPC
\* The responses the service hands the callbacks: a function description for
\* getFunc, a page of them for listFuncs, nothing for deleteFunc.
FuncF ==
  [name |-> "f", image |-> "img-f", invocationCount |-> 7, replicas |-> 2,
   availableReplicas |-> 1]
FuncG ==
  [name |-> "g", image |-> "img-g", invocationCount |-> 0, replicas |-> 1,
   availableReplicas |-> 0]
FuncPages ==
  [nextPageToken : {"", "p2"}, funcsList : {<<>>, <<FuncF, FuncG>>}]
Responses(method) ==
  CASE method = "getFunc" -> {FuncF, FuncG}
    [] method = "listFuncs" -> FuncPages
    [] OTHER -> {[deleted |-> TRUE]}

\* What the service calls the callback with: an error and no response, or no
\* error and a response.
CallbackArgs(method) ==
  {[e |-> "e1", res |-> <<>>]}
    \cup {[e |-> "", res |-> <<r>>] : r \in Responses(method)}

\* The object a function description is mapped to.
MapFunc(f) ==
  [name |-> f.name, image |-> f.image, replicas |-> f.replicas,
   invocationCount |-> f.invocationCount,
   availableReplicas |-> f.availableReplicas]

\* A call whose callback has not run yet.
PendingCall(method, name) ==
  [method |-> method, name |-> name, done |-> FALSE, e |-> "", res |-> <<>>,
   state |-> "pending", err |-> "", val |-> <<>>, settles |-> 0,
   readAbsent |-> FALSE, raised |-> ""]

\* reject(e) and resolve(v) on the call's promise: the first one settles it.
Reject(c, e) ==
  IF c.state = "pending"
    THEN [c EXCEPT !.state = "rejected", !.err = e, !.settles = @ + 1]
    ELSE [c EXCEPT !.settles = @ + 1]
Resolve(c, v) ==
  IF c.state = "pending"
    THEN [c EXCEPT !.state = "resolved", !.val = <<v>>, !.settles = @ + 1]
    ELSE [c EXCEPT !.settles = @ + 1]

\* The callbacks: `if (e) reject(e);` and then, in either case, resolve(...)
\* with an argument built from the response.  Building it from an absent
\* response throws a TypeError out of the callback before resolve is called.
RpcCallback(c, a) ==
  LET c0 == [c EXCEPT !.done = TRUE, !.e = a.e, !.res = a.res]
      c1 == IF a.e # "" THEN Reject(c0, a.e) ELSE c0
  IN CASE c.method = "deleteFunc" -> Resolve(c1, [name |-> c.name])
       [] a.res = <<>> -> [c1 EXCEPT !.readAbsent = TRUE, !.raised = "TypeError"]
       [] c.method = "getFunc" -> Resolve(c1, MapFunc(a.res[1]))
       [] OTHER ->
            Resolve(c1, [nextPageToken |-> a.res[1].nextPageToken,
                         funcs |-> [i \in 1..Len(a.res[1].funcsList) |->
                                      MapFunc(a.res[1].funcsList[i])]])

\* A caller calls getFunc, deleteFunc or listFuncs.
RpcCall ==
  /\ Len(rpc) < MaxRpc
  /\ \E method \in {"getFunc", "deleteFunc", "listFuncs"}, name \in FuncNames :
       rpc' = Append(rpc, PendingCall(method, name))
  /\ UNCHANGED <<coreVars, builderVars, procVars, ttsVars, dep>>

\* The service calls back.
RpcReply ==
  /\ \E i \in 1..Len(rpc) :
       /\ ~rpc[i].done
       /\ \E a \in CallbackArgs(rpc[i].method) :
            rpc' = [rpc EXCEPT ![i] = RpcCallback(rpc[i], a)]
  /\ UNCHANGED <<coreVars, builderVars, procVars, ttsVars, dep>>

RpcNext ==
  \/ RpcCall
  \/ RpcReply

RpcSpec == Init /\ [][RpcNext]_vars

\* ------------------------------------------------- process-wide objects
\* The first route registered on path among routes (Express runs the first
\* match, and neither callback passes the request on).
FirstRoute(routes, path) ==
  routes[Min({i \in 1..Len(routes) : routes[i].path = path})]
HasRoute(routes, path) == \E i \in 1..Len(routes) : routes[i].path = path

\* init() of server object srv, whose configured path is path: one more
\* realtime route on that path.
init(routes, srv, path) == Append(routes, [path |-> path, server |-> srv])

\* new VoiceServer(config): the configuration is merged with the defaults
\* and init() registers the realtime route on the configured path.
NewServerOf(Args) ==
  /\ ~crashed
  /\ Len(servers) < MaxServers
  /\ \E arg \in Args :
       LET config == IF arg = <<>> THEN AsGiven(defaults) ELSE arg[1]
           m == merge(defaults, config)
           srv == Len(servers) + 1
       IN /\ servers' = Append(servers, [arg |-> arg, config |-> m.out,
                                         calls |-> 0, binding |-> 0,
                                         listening |-> FALSE,
                                         failed |-> FALSE])
          /\ defaults' = m.target
          /\ wsRoutes' = init(wsRoutes, srv, m.out.path)
          /\ buses' = buses \cup {ServerBus(srv)}
  /\ UNCHANGED <<postRoutes, busUses>>
  /\ UNCHANGED <<coreVars, builderVars, ttsVars, funcVars>>

\* A server object is made with any argument.
NewServer == NewServerOf(ServerArgs)

\* A server object is made with no argument or with a path alone.
NewServerOnPath == NewServerOf(PathArgsOnly)

\* The listen() and init() calls made on server objects so far (each
\* listen() added a POST route, each init() after construction a realtime
\* route).
MethodCalls == Len(postRoutes) + (Len(wsRoutes) - Len(servers))

\* init() is called on an existing server object (it is a public method):
\* one more realtime route on the object's configured path, nothing else.
ServerInit ==
  /\ ~crashed
  /\ MethodCalls < MaxCalls
  /\ \E srv \in 1..Len(servers) :
       wsRoutes' = init(wsRoutes, srv, servers[srv].config.path)
  /\ UNCHANGED <<servers, defaults, postRoutes, buses, busUses>>
  /\ UNCHANGED <<coreVars, builderVars, ttsVars, funcVars>>

\* The one http server of the module's app (express-ws makes it, and makes
\* app.listen its listen) has opened its port.
AppListening == \E i \in 1..Len(servers) : servers[i].listening

\* server.listen(handler) on a server object, any number of times and
\* whatever the object's earlier calls did: the POST route is registered
\* (again) on the configured path, then app.listen(port, bind) is called.
\* The call returns with the port still to be opened, in a later macrotask;
\* on an app whose port is open it may instead throw out of listen() (the
\* caller may catch the error, or the process ends).  The route stays
\* registered either way.  (calls counts the object's listen() calls,
\* binding those whose port is still to be opened.)
ServerListen ==
  /\ ~crashed
  /\ MethodCalls < MaxCalls
  /\ \E srv \in 1..Len(servers) :
       /\ postRoutes' = Append(postRoutes, [path |-> servers[srv].config.path,
                                            server |-> srv])
       /\ \/ /\ servers' = [servers EXCEPT ![srv].calls = @ + 1,
                                            ![srv].binding = @ + 1]
             /\ crashed' = FALSE
          \/ /\ AppListening
             /\ servers' = [servers EXCEPT ![srv].calls = @ + 1,
                                            ![srv].failed = TRUE]
             /\ crashed' \in BOOLEAN
  /\ UNCHANGED <<defaults, wsRoutes, buses, busUses>>
  /\ UNCHANGED <<listening, reqs, actions, listeners, linfo, delivered,
                 unsubCalls, logged, bcasts, conns>>
  /\ UNCHANGED <<builderVars, ttsVars, funcVars>>

\* The port asked for by a listen() call of server object srv is opened, in
\* a macrotask after the call.  The first opening of the process succeeds,
\* and requests are served from then on, unless the port is held by another
\* socket: then the http server emits "error", nothing listens for it, and
\* the process ends with no port open.  An opening that comes when the app's
\* port is open fails: the error is reported on the http server in the same
\* way and the process ends, or the runtime reports nothing.
ServerBind ==
  /\ ~crashed
  /\ \E srv \in 1..Len(servers) :
       /\ servers[srv].binding > 0
       /\ IF ~AppListening
            THEN \/ /\ servers' = [servers EXCEPT ![srv].binding = @ - 1,
                                                  ![srv].listening = TRUE]
                    /\ crashed' = FALSE
                 \/ /\ servers' = servers
                    /\ crashed' = TRUE
            ELSE /\ servers' = [servers EXCEPT ![srv].binding = @ - 1,
                                               ![srv].failed = TRUE]
                 /\ crashed' \in BOOLEAN
  /\ UNCHANGED <<defaults, postRoutes, wsRoutes, buses, busUses>>
  /\ UNCHANGED <<listening, reqs, actions, listeners, linfo, delivered,
                 unsubCalls, logged, bcasts, conns>>
  /\ UNCHANGED <<builderVars, ttsVars, funcVars>>

\* A POST on a path with a POST route: the route callback gives the bus to
\* the request's builder.
ProcPost ==
  /\ ~crashed /\ AppListening
  /\ Len(busUses) < MaxUses
  /\ \E path \in {"/", "/voice"} :
       /\ HasRoute(postRoutes, path)
       /\ LET srv == FirstRoute(postRoutes, path).server
          IN busUses' = Append(busUses, [kind |-> "builder", server |-> srv,
                                         bus |-> ServerBus(srv)])
  /\ UNCHANGED <<servers, defaults, postRoutes, wsRoutes, buses>>
  /\ UNCHANGED <<coreVars, builderVars, ttsVars, funcVars>>

\* A realtime message on a connection accepted on a path with a realtime
\* route (some server is listening): the callback broadcasts on the bus.
ProcWsMessage ==
  /\ ~crashed /\ AppListening
  /\ Len(busUses) < MaxUses
  /\ \E path \in {"/", "/voice"} :
       /\ HasRoute(wsRoutes, path)
       /\ LET srv == FirstRoute(wsRoutes, path).server
          IN busUses' = Append(busUses, [kind |-> "relay", server |-> srv,
                                         bus |-> ServerBus(srv)])
  /\ UNCHANGED <<servers, defaults, postRoutes, wsRoutes, buses>>
  /\ UNCHANGED <<coreVars, builderVars, ttsVars, funcVars>>

\* Server objects on one path or two, their listen() calls, and the requests
\* and realtime messages routed to them.
ProcNext ==
  \/ NewServerOnPath
  \/ ServerInit
  \/ ServerListen
  \/ ServerBind
  \/ ProcPost
  \/ ProcWsMessage

ProcSpec == Init /\ [][ProcNext]_vars

\* Server objects made with every kind of argument, and their listen() calls.
ConfigNext ==
  \/ NewServer
  \/ ServerInit
  \/ ServerListen
  \/ ServerBind

ConfigSpec == Init /\ [][ConfigNext]_vars

\* The server: the dispatcher, the builders' waits and the relay.
Next ==
  \/ Listen
  \/ Post
  \/ Timeout
  \/ WsConnect
  \/ WsMessage

Spec == Init /\ [][Next]_vars

\* The event loop runs every timer that is due: weak fairness of
\* TimeoutOf(r).  WF_vars(A) is written out as
\* []<>~ENABLED <<A>>_vars \/ []<><<A>>_vars, with the enabling condition
\* given by the action's guard (the action changes reqs whenever it is taken).
TimeoutEnabled(r) == ~crashed /\ r \in ReqIds /\ reqs[r].st = "waiting"
TimersFire ==
  \A r \in 1..MaxReq :
    []<>(~TimeoutEnabled(r)) \/ []<><<TimeoutOf(r)>>_vars

\* The end-to-end scenario: requests to the handler that waits for a digit,
\* realtime clients, timers that fire.
E2ENext ==
  \/ Listen
  \/ PostE2E
  \/ Timeout
  \/ WsConnect
  \/ WsMessage

E2ESpec == Init /\ [][E2ENext]_vars /\ TimersFire

\* Requests whose handlers wait, with realtime clients that go away and come
\* back.
CloseNext ==
  \/ Listen
  \/ PostWaiting
  \/ Timeout
  \/ WsConnect
  \/ WsDigit
  \/ WsClose

CloseSpec == Init /\ [][CloseNext]_vars /\ TimersFire

\* Requests served, and user code that goes on using their builders.
StaleNext ==
  \/ Listen
  \/ PostE2E
  \/ Timeout
  \/ StaleAddAction
  \/ StaleWaitForEvent

StaleSpec == Init /\ [][StaleNext]_vars

\* The bus used directly: listeners subscribed and unsubscribed by user code
\* while the relay broadcasts.
BusNext ==
  \/ Listen
  \/ WsConnect
  \/ WsDigit
  \/ Subscribe
  \/ Unsubscribe

BusSpec == Init /\ [][BusNext]_vars

\* ----------------------------------------------------------------- claims
Last(q) == q[Len(q)]
Terminated(r) == reqs[r].st \in {"returned", "failed"}
Suspended(r) == reqs[r].st = "waiting"

\* C1: every request whose handler has terminated, normally or by failure,
\* has its response closed; in particular a failed handler's response is.
C1_FailedHandlerResponseClosed ==
  \A r \in ReqIds : Terminated(r) => reqs[r].ended >= 1

\* C2: a response is closed only after its handler has completed: it is never
\* closed while the handler is suspended, and the step that closes it is the
\* one in which the handler returns.
C2_CloseAfterHandler ==
  /\ [](\A r \in ReqIds : reqs[r].ended >= 1 => reqs[r].st = "returned")
  /\ [][\A r \in 1..Len(reqs') :
          (reqs'[r].ended >= 1 /\ (r > Len(reqs) \/ reqs[r].ended = 0))
            => reqs'[r].pc > Len(reqs'[r].script)]_vars

\* A response closed after its handler was suspended in a wait, while a
\* second request and a realtime message were handled in between.
C2_Witness ==
  \E r \in ReqIds :
    /\ reqs[r].ended = 1
    /\ reqs[r].outs # <<>>
    /\ Len(reqs) > r
    /\ Len(bcasts) > linfo[reqs[r].outs[1].h].since

\* C3: every request's handler is invoked exactly once and its response is
\* closed at most once.
C3_OnceInvokedOnceClosed ==
  \A r \in ReqIds : reqs[r].invoked = 1 /\ reqs[r].ended <= 1

\* Two requests in flight together, one closed while the other is suspended.
C3_Witness ==
  \E r1, r2 \in ReqIds :
    /\ r1 # r2
    /\ reqs[r1].ended = 1 /\ reqs[r1].outs # <<>>
    /\ Suspended(r2)
    /\ bcasts # <<>>

\* C4: two requests never have the same builder, and a builder's action
\* sequence holds only the actions its own request's handler added.
C4_BuilderPerRequest ==
  /\ \A r1, r2 \in ReqIds : r1 # r2 => reqs[r1].builder # reqs[r2].builder
  /\ \A r \in ReqIds :
       \A i \in 1..Len(actions[reqs[r].builder]) :
         actions[reqs[r].builder][i].by = r

\* Two requests in flight together, both having added actions.
C4_Witness ==
  \E r1, r2 \in ReqIds :
    /\ r1 < r2
    /\ Suspended(r1) /\ Suspended(r2)
    /\ actions[reqs[r1].builder] # <<>>
    /\ actions[reqs[r2].builder] # <<>>

\* The realtime callback of connection c runs on frame m, and on no other
\* frame, in this step.
RelayStep(c, m) == conns'[c].recv = Append(conns[c].recv, m)

\* The end-to-end handler: it waits for a digit and returns.
E2E(r) == reqs[r].script = <<"waitDigit">>

\* No broadcast numbered lo..hi satisfied predicate p.
NoMatch(p, lo, hi) == \A i \in lo..hi : ~Holds(p, bcasts[i].msg)

\* C5: when the digit message a client sent arrives over the relay while a
\* handler is suspended in waitForEvent(m => m.type === "digit"), its wait
\* completes with that message and, for the end-to-end handler, the response
\* (open until then) is closed; a wait that completes with no message having
\* arrived completes with the timeout outcome, and the response is then
\* closed; a suspended end-to-end handler always gets there.
C5_EndToEnd ==
  /\ [][\A r \in ReqIds, c \in ConnIds :
          (Suspended(r) /\ linfo[reqs[r].wait].pred = "digit" /\ RelayStep(c, Digit5))
            => /\ Len(reqs'[r].outs) = Len(reqs[r].outs) + 1
               /\ Last(reqs'[r].outs).kind = "msg"
               /\ Last(reqs'[r].outs).msg = Digit5
               /\ E2E(r) => (reqs[r].ended = 0 /\ reqs'[r].ended = 1)]_vars
  /\ [][\A r \in ReqIds :
          (Suspended(r) /\ E2E(r) /\ reqs'[r].outs # reqs[r].outs /\ bcasts' = bcasts)
            => /\ Last(reqs'[r].outs).kind = "timeout"
               /\ Last(reqs'[r].outs).msg = NoMsg
               /\ reqs[r].ended = 0 /\ reqs'[r].ended = 1]_vars
  /\ \A r \in 1..MaxReq :
       (r \in ReqIds /\ E2E(r) /\ Suspended(r)) ~> (r \in ReqIds /\ reqs[r].ended = 1)

\* The waits made so far, and the outcome of a completed one.
WaitHandles == {h \in Handles : linfo[h].kind = "wait"}
OutcomesOf(h) ==
  {i \in 1..Len(reqs[linfo[h].req].outs) : reqs[linfo[h].req].outs[i].h = h}
Outcome(h) ==
  reqs[linfo[h].req].outs[CHOOSE i \in OutcomesOf(h) : TRUE]

\* C6: a completed wait has one outcome: either the first message broadcast
\* after the call that satisfies its predicate, or, no such message having
\* been broadcast before it fired, the timeout outcome, which is no message;
\* its listener is then no longer in the bus's listener set.  A wait that has
\* not completed has seen no message satisfying its predicate.
C6_WaitForEvent ==
  \A h \in WaitHandles :
    LET p == linfo[h].pred
        s == linfo[h].since
    IN IF OutcomesOf(h) = {}
         THEN NoMatch(p, s + 1, Len(bcasts))
         ELSE /\ Cardinality(OutcomesOf(h)) = 1
              /\ h \notin listeners
              /\ LET o == Outcome(h) IN
                 IF o.kind = "msg"
                   THEN /\ o.at > s
                        /\ o.msg = bcasts[o.at].msg
                        /\ o.msg \in Msgs
                        /\ Holds(p, o.msg)
                        /\ NoMatch(p, s + 1, o.at - 1)
                   ELSE /\ o.kind = "timeout"
                        /\ o.msg \notin Msgs
                        /\ NoMatch(p, s + 1, o.at)

\* A wait that passed over a non-matching message and was completed by the
\* matching one after it, and a wait made after a matching message that was
\* not completed by it and timed out.
C6_Witness ==
  /\ \E h \in WaitHandles :
       /\ OutcomesOf(h) # {}
       /\ Outcome(h).kind = "msg"
       /\ Outcome(h).at > linfo[h].since + 1
  /\ \E h \in WaitHandles :
       /\ OutcomesOf(h) # {}
       /\ linfo[h].since >= 1
       /\ Holds(linfo[h].pred, bcasts[linfo[h].since].msg)
       /\ Outcome(h).kind = "timeout"

\* The messages of the first n broadcasts that were made while h was
\* subscribed, in order.
RECURSIVE BroadcastsTo(_, _)
BroadcastsTo(h, n) ==
  IF n = 0 THEN <<>>
  ELSE IF h \in bcasts[n].to
         THEN Append(BroadcastsTo(h, n - 1), bcasts[n].msg)
         ELSE BroadcastsTo(h, n - 1)

\* C7: every listener has been handed, once each and in order, exactly the
\* messages of the broadcasts made while it was subscribed: those made after
\* it subscribed and before it was removed.
C7_BroadcastExactlyOnce ==
  /\ \A h \in Handles : delivered[h] = BroadcastsTo(h, Len(bcasts))
  /\ \A h \in Handles : \A i \in 1..Len(bcasts) :
       /\ h \in bcasts[i].to => linfo[h].since < i
       /\ (h \in listeners /\ linfo[h].since < i) => h \in bcasts[i].to

\* Two broadcasts made, around a subscribe and an unsubscribe: a listener
\* that was handed both, and one, registered before the first and removed by
\* it, that was handed only the first while its handler subscribed anew and
\* was handed the second.
C7_Witness ==
  /\ Len(bcasts) = 2
  /\ \E h1, h2, h3 \in Handles :
       /\ Len(delivered[h1]) = 2
       /\ linfo[h2].since = 0 /\ Len(delivered[h2]) = 1 /\ h2 \notin listeners
       /\ linfo[h3].since = 1 /\ Len(delivered[h3]) = 1

\* C8: once unsubscribe(h) has been called, h is not in the listener set and
\* no broadcast hands a message to its listener; a further unsubscribe(h)
\* leaves the listener set as it is and raises nothing.
C8_Unsubscribe ==
  /\ [](\A h \in Handles : unsubCalls[h] >= 1 => h \notin listeners)
  /\ [][\A h \in Handles :
          unsubCalls[h] >= 1 =>
            /\ delivered'[h] = delivered[h]
            /\ unsubCalls'[h] > unsubCalls[h] =>
                 (listeners' = listeners /\ crashed' = crashed)]_vars

\* A listener that received a message, was unsubscribed twice and missed the
\* broadcast made after that.
C8_Witness ==
  \E h \in PlainHandles :
    /\ unsubCalls[h] = 2
    /\ Len(delivered[h]) = 1
    /\ linfo[h].since = 0
    /\ Len(bcasts) = 2

\* The listeners that raise when they are handed a message.
Raising == {h \in PlainHandles : linfo[h].raises}

\* The failures of listeners over the first n broadcasts.
RECURSIVE FailuresIn(_)
FailuresIn(n) ==
  IF n = 0 THEN 0 ELSE FailuresIn(n - 1) + Cardinality(Raising \cap bcasts[n].to)

\* C9: whenever a subscribed listener raised during a broadcast of m, every
\* other listener subscribed then was still handed m, the failure was logged,
\* and the relay's message callback completed without an error: the step
\* that makes a broadcast leaves the connection open and the server running.
C9_ListenerFailureIsolated ==
  /\ [](/\ \A i \in 1..Len(bcasts) :
             Raising \cap bcasts[i].to # {} =>
               \A h \in bcasts[i].to : delivered[h] = BroadcastsTo(h, Len(bcasts))
        /\ logged = FailuresIn(Len(bcasts)))
  /\ [][Len(bcasts') > Len(bcasts) =>
          /\ ~crashed'
          /\ \A c \in ConnIds : conns[c].open => conns'[c].open]_vars

\* A raising listener was handed a message, and so was a listener registered
\* after it, in the same broadcast.
C9_Witness ==
  \E h1 \in Raising, h2 \in Handles :
    /\ h1 < h2
    /\ h1 \in listeners /\ unsubCalls[h1] = 0
    /\ delivered[h1] # <<>>
    /\ delivered[h2] # <<>>
    /\ logged >= 1
    /\ ~crashed

\* The broadcasts made for connection c, in order.
RECURSIVE BroadcastsOf(_, _)
BroadcastsOf(c, n) ==
  IF n = 0 THEN <<>>
  ELSE IF bcasts[n].conn = c
         THEN Append(BroadcastsOf(c, n - 1), bcasts[n].msg)
         ELSE BroadcastsOf(c, n - 1)

\* C10: the messages broadcast for a connection are exactly the frames it
\* received, each once, unchanged and in the order received, and nothing is
\* sent back to the client.
C10_RelayForwards ==
  \A c \in ConnIds :
    /\ BroadcastsOf(c, Len(bcasts)) = conns[c].recv
    /\ conns[c].out = <<>>

\* Two different frames of one connection relayed.
C10_Witness ==
  \E c \in ConnIds :
    /\ Len(conns[c].recv) = 2
    /\ conns[c].recv[1] # conns[c].recv[2]
    /\ Len(bcasts) = 2

\* C11: there is one event bus in the process, the one made when the module
\* was loaded: every builder was given it and every relay broadcast went to
\* it, whichever server object's route handled the request, and the set of
\* instances never changes.
C11_OneEventBus ==
  /\ [](/\ buses = {voiceEvents}
        /\ \A i \in 1..Len(busUses) : busUses[i].bus = voiceEvents)
  /\ [][buses' = buses]_vars

\* Two server objects, a builder made by the route of one and a realtime
\* message relayed by the route of the other.
C11_Witness ==
  /\ Len(servers) = 2
  /\ \E i, j \in 1..Len(busUses) :
       /\ busUses[i].kind = "builder" /\ busUses[j].kind = "relay"
       /\ busUses[i].server # busUses[j].server

\* The field f of the constructor's argument of server srv, if given.
Given(srv, f) ==
  LET a == servers[srv].arg IN
  IF a = <<>> THEN <<>>
  ELSE CASE f = "path" -> a[1].path [] f = "port" -> a[1].port
         [] OTHER -> a[1].bind

\* C16: a server's configuration has each given field at its given value and
\* each omitted field at its default ("/", 3000, "0.0.0.0"); its realtime
\* route and its POST routes, one for each listen() call made on it, are on
\* that configured path; the default configuration object is never modified.
C16_ConfigMerge ==
  /\ defaults = [path |-> "/", port |-> 3000, bind |-> "0.0.0.0"]
  /\ \A srv \in 1..Len(servers) :
       LET c == servers[srv].config IN
       /\ c.path = IF Given(srv, "path") # <<>> THEN Given(srv, "path")[1] ELSE "/"
       /\ c.port = IF Given(srv, "port") # <<>> THEN Given(srv, "port")[1] ELSE 3000
       /\ c.bind = IF Given(srv, "bind") # <<>> THEN Given(srv, "bind")[1]
                   ELSE "0.0.0.0"
       /\ \E i \in 1..Len(wsRoutes) :
            wsRoutes[i].server = srv /\ wsRoutes[i].path = c.path
       /\ \A i \in 1..Len(wsRoutes) :
            wsRoutes[i].server = srv => wsRoutes[i].path = c.path
       /\ \A i \in 1..Len(postRoutes) :
            postRoutes[i].server = srv => postRoutes[i].path = c.path
       /\ Cardinality({i \in 1..Len(postRoutes) : postRoutes[i].server = srv})
            = servers[srv].calls

\* A server made with a path and no port or bind whose listen() was called
\* twice, the port open, beside one made with no argument whose listen() has
\* returned and whose port is still to be opened: three POST routes.
C16_Witness ==
  \E s1, s2 \in 1..Len(servers) :
    /\ servers[s1].arg = <<[path |-> <<"/voice">>, port |-> <<>>, bind |-> <<>>]>>
    /\ servers[s1].calls = 2
    /\ servers[s2].arg = <<>>
    /\ servers[s2].calls = 1
    /\ servers[s2].binding = 1 /\ ~servers[s2].listening /\ ~servers[s2].failed
    /\ AppListening

\* C17: the wait of every suspended handler is subscribed on the one bus, so
\* that every broadcast made for a frame of any connection is handed to it;
\* and every wait subscribed at a broadcast whose message satisfies its
\* predicate was completed by that broadcast, with that message.
C17_GlobalBroadcast ==
  /\ \A r \in ReqIds : Suspended(r) => reqs[r].wait \in listeners
  /\ \A i \in 1..Len(bcasts) : \A h \in WaitHandles :
       /\ (h \in listeners /\ linfo[h].since < i) => h \in bcasts[i].to
       /\ h \in bcasts[i].to => Len(delivered[h]) >= 1
       /\ (h \in bcasts[i].to /\ Holds(linfo[h].pred, bcasts[i].msg)) =>
            /\ OutcomesOf(h) # {}
            /\ Outcome(h).kind = "msg"
            /\ Outcome(h).at = i
            /\ Outcome(h).msg = bcasts[i].msg

\* Two handlers that were suspended at once, both waits completed by the same
\* broadcast.
C17_Witness ==
  \E r1, r2 \in ReqIds :
    /\ r1 # r2
    /\ \E i \in 1..Len(reqs[r1].outs), j \in 1..Len(reqs[r2].outs) :
         /\ reqs[r1].outs[i].kind = "msg" /\ reqs[r2].outs[j].kind = "msg"
         /\ reqs[r1].outs[i].at = reqs[r2].outs[j].at
         /\ reqs[r1].outs[i].msg = reqs[r2].outs[j].msg

\* Connection c closes or fails in this step.
CloseStep(c) ==
  \/ conns[c].open /\ ~conns'[c].open
  \/ ~conns[c].failed /\ conns'[c].failed

\* C13: the step in which a realtime connection closes or fails leaves the
\* listener set, every request (its wait, its handler's position, its
\* response), the actions, the broadcasts and the running server as they
\* were; a wait that was pending then completes only by a message from
\* another connection or by its timeout, and every suspended handler does
\* complete.
C13_CloseChangesNothing ==
  /\ [][\A c \in ConnIds :
          CloseStep(c) => UNCHANGED <<listening, reqs, actions, listeners, linfo,
                                      delivered, logged, bcasts, crashed>>]_vars
  /\ [](\A c \in ConnIds \ OpenConns : \A h \in conns[c].pending :
          OutcomesOf(h) # {} =>
            \/ Outcome(h).kind = "timeout"
            \/ /\ Outcome(h).kind = "msg"
               /\ bcasts[Outcome(h).at].conn # c
               /\ Holds(linfo[h].pred, Outcome(h).msg))
  /\ \A r \in 1..MaxReq :
       (r \in ReqIds /\ Suspended(r)) ~> (r \in ReqIds /\ Terminated(r))

\* C12: every addAction or waitForEvent call made on a request's builder
\* after the dispatcher has finished the request fails with an invalid-state
\* error, and the step of the call adds no action and registers no listener.
C12_StaleBuilderCallsFail ==
  /\ [](\A i \in 1..Len(staleCalls) : staleCalls[i].failed)
  /\ [][Len(staleCalls') > Len(staleCalls) =>
          (actions' = actions /\ listeners' = listeners)]_vars

\* C14: a GET /tts/:file whose file is missing or unreadable is answered with
\* a not-found status and an error body, without the audio content type, and
\* the response is closed and the server goes on; one whose file exists is
\* answered with the file's bytes and the audio content type.
C14_TtsNotFound ==
  /\ (tts # <<>> => ~crashed)
  /\ \A i \in 1..Len(tts) :
       LET t == tts[i] IN
       t.done =>
         /\ t.res.ended
         /\ t.read.err # "" =>
              /\ t.res.status = 404
              /\ t.res.body = "unable to find or open file"
              /\ t.res.ctype # "audio/x-wav"
         /\ t.read.err = "" =>
              /\ t.res.body = t.read.data
              /\ t.res.ctype = "audio/x-wav"

\* The deployFunc call made, its stream's terminal events and the data
\* messages among the first n events.
Deployed == dep # <<>>
Opened == Deployed /\ \E i \in 1..Len(dep[1].steps) : dep[1].steps[i].op = "open"
Terminals ==
  {i \in 1..Len(dep[1].events) : dep[1].events[i].type \in {"end", "error"}}
RECURSIVE DataOf(_, _)
DataOf(evs, n) ==
  IF n = 0 THEN <<>>
  ELSE IF evs[n].type = "data" THEN Append(DataOf(evs, n - 1), evs[n].val)
       ELSE DataOf(evs, n - 1)

\* C15: the promise of a deployFunc whose stream was opened is pending until
\* the stream's first end or error, then resolved if that was an end and
\* rejected with the stream's error if it was an error, and a settled promise
\* never changes; the data messages emitted before that were passed to the
\* emitter once each, in order, if there is an emitter, and to nothing if
\* there is none.
C15_StreamSettlesOnce ==
  /\ [](Opened =>
          LET d == dep[1] IN
          /\ Terminals = {} => d.promise.state = "pending"
          /\ Terminals # {} =>
               LET t == d.events[Min(Terminals)] IN
               /\ t.type = "end" => (d.promise.state = "resolved" /\ d.promise.err = "")
               /\ t.type = "error" =>
                    (d.promise.state = "rejected" /\ d.promise.err = t.val)
          /\ LET n == IF Terminals = {} THEN Len(d.events) ELSE Min(Terminals) - 1
             IN IF d.hasEmitter
                  THEN /\ Len(d.emitted) >= Len(DataOf(d.events, n))
                       /\ SubSeq(d.emitted, 1, Len(DataOf(d.events, n)))
                            = DataOf(d.events, n)
                  ELSE d.emitted = <<>>)
  /\ [][(Deployed /\ dep[1].promise.state # "pending") =>
          (/\ dep'[1].promise.state = dep[1].promise.state
           /\ dep'[1].promise.err = dep[1].promise.err)]_vars

\* A stream that emitted a message, an error and then an end: the emitter got
\* the message, and the promise, settled twice over, is rejected with the error.
C15_Witness ==
  /\ Opened
  /\ dep[1].hasEmitter
  /\ Len(dep[1].events) = 3
  /\ dep[1].events[1].type = "data"
  /\ dep[1].events[2].type = "error"
  /\ dep[1].events[3].type = "end"
  /\ dep[1].emitted = <<dep[1].events[1].val>>
  /\ dep[1].promise = [state |-> "rejected", err |-> "e1", calls |-> 2]

\* The steps of a deployFunc with pathToFunc path, for function name.
FullSteps(name, path) ==
  <<Step("cleanup", name, ""), Step("copy", path, name), Step("copied", name, ""),
    Step("upload", "/tmp/" \o name \o ".tgz", "funcs"), Step("uploaded", name, ""),
    Step("open", name, "")>>

\* C18: with pathToFunc set, the steps taken are, in this order, the cleanup
\* for the name, the copy, the upload of /tmp/<name>.tgz to bucket "funcs"
\* and, after the upload has completed, the opening of the stream; with
\* pathToFunc not set (or empty) the only step is the opening of the stream.
C18_DeployStepOrder ==
  Deployed =>
    LET d == dep[1] IN
    IF Truthy(d.request.pathToFunc)
      THEN /\ Len(d.steps) <= 6
           /\ d.steps = SubSeq(FullSteps(d.request.name, d.request.pathToFunc[1]),
                               1, Len(d.steps))
           /\ d.phase = "streaming" => Len(d.steps) = 6
      ELSE d.steps = <<Step("open", d.request.name, "")>>

\* A deployFunc with a path that went through all its steps and whose stream
\* has ended.
C18_Witness ==
  /\ Deployed
  /\ Truthy(dep[1].request.pathToFunc)
  /\ Len(dep[1].steps) = 6
  /\ dep[1].promise.state = "resolved"

\* C19: when the copy or the upload has failed, the promise is rejected with
\* that failure, the stream was never opened and the emitter never called.
C19_PrepareFailure ==
  /\ [](Deployed =>
          /\ dep[1].failure # "" =>
               /\ dep[1].promise.state = "rejected"
               /\ dep[1].promise.err = dep[1].failure
               /\ ~Opened
               /\ dep[1].events = <<>> /\ dep[1].emitted = <<>>
          /\ dep[1].failure = "copy failed" => Last(dep[1].steps).op = "copy"
          /\ dep[1].failure = "upload failed" => Last(dep[1].steps).op = "upload")
  /\ [][(Deployed /\ dep[1].failure # "") => dep' = dep]_vars

\* A deployFunc with an emitter whose upload failed.
C19_Witness ==
  /\ Deployed
  /\ dep[1].hasEmitter
  /\ dep[1].failure = "upload failed"
  /\ dep[1].promise.err = "upload failed"

\* The value a call's promise is to be resolved with, given the response.
Mapped(c) ==
  CASE c.method = "deleteFunc" -> [name |-> c.name]
    [] c.method = "getFunc" ->
         [name |-> c.res[1].name, image |-> c.res[1].image,
          invocationCount |-> c.res[1].invocationCount,
          replicas |-> c.res[1].replicas,
          availableReplicas |-> c.res[1].availableReplicas]
    [] OTHER ->
         [nextPageToken |-> c.res[1].nextPageToken,
          funcs |-> [i \in 1..Len(c.res[1].funcsList) |->
                       [name |-> c.res[1].funcsList[i].name,
                        image |-> c.res[1].funcsList[i].image,
                        replicas |-> c.res[1].funcsList[i].replicas,
                        invocationCount |-> c.res[1].funcsList[i].invocationCount,
                        availableReplicas |->
                          c.res[1].funcsList[i].availableReplicas]]]

\* C20: a getFunc, deleteFunc or listFuncs call whose callback reported an
\* error e has its promise rejected with e, and its callback neither read
\* the absent response nor raised anything; one whose callback reported no
\* error has its promise resolved, once, with the fields of the response.
C20_RpcErrorRejects ==
  \A i \in 1..Len(rpc) :
    LET c == rpc[i] IN
    c.done =>
      IF c.e # ""
        THEN /\ c.state = "rejected" /\ c.err = c.e
             /\ ~c.readAbsent
             /\ c.raised = ""
        ELSE /\ c.state = "resolved" /\ c.settles = 1
             /\ c.val = <<Mapped(c)>>
             /\ c.raised = ""

====
